---- MODULE Spec2Model ----
(***************************************************************************)
(* Model of the CBOE options-chain analyzer: the parser of data_module.py, *)
(* the seven metric functions of calculations_module.py and the sequence   *)
(* in which app.py applies them to one expiration slice.                   *)
(*                                                                         *)
(* Conventions                                                             *)
(*  - An optional value (Python None, NaN, NaT) is the empty tuple <<>>;   *)
(*    a defined value v is <<v>>. The spot price alone tells None from NaN *)
(*    (the caller tests it with "is not None"): its NaN is NaNSpot.        *)
(*  - An empty or unparseable cell of the file is None.                    *)
(*  - A real number produced by a division is an exact fraction            *)
(*    [n |-> numerator, d |-> denominator], d > 0, in lowest terms.        *)
(*  - A DataFrame is the sequence of its rows in row order; every row of   *)
(*    the parsed table carries its pandas index label in the field idx.    *)
(*  - Prices (strikes, spot) and Gamma, IV are integers in the unit of the *)
(*    file's smallest step.                                                *)
(***************************************************************************)
EXTENDS Integers, Sequences, FiniteSets, TLC

VARIABLES
    uploaded_file,        \* the uploaded CSV: header block and wide rows
    now,                  \* the wall clock's date (pd.Timestamp.now().normalize())
    pc,                   \* position of the script
    df_processed,         \* parsed table (<<>> when parsing failed: None)
    spot_price,           \* resolved spot price, optional
    data_timestamp,       \* header timestamp text, optional
    parse_log,            \* the lines parse_cboe_csv printed, in order
    df_columns,           \* the column names of the parsed table
    export_data,          \* the JSON export's drift_analysis entry
    display,              \* what the tabs show for the metrics
    df_selected_expiry,   \* the expiration slice
    gex_metrics,
    oi_metrics,
    vol_metrics,
    activity_metrics,
    max_pain,
    pc_ratios,
    expected_move

vars == <<uploaded_file, now, pc, df_processed, spot_price, data_timestamp,
          parse_log, df_columns, export_data, display, df_selected_expiry,
          gex_metrics, oi_metrics, vol_metrics, activity_metrics, max_pain,
          pc_ratios, expected_move>>

-----------------------------------------------------------------------------
(* Bounds of the model *)

\* largest number of wide rows (one call and one put each) in an uploaded file
MaxRows == 3

\* last day the wall clock reaches
LastDay == 13

-----------------------------------------------------------------------------
(* Values *)

None == <<>>
Some(v) == <<v>>
IsNone(o) == o = <<>>
Val(o) == o[1]

\* a spot price that is NaN: not None, and every comparison with it is False
NaNSpot == <<0, 0>>
IsNaN(o) == Len(o) = 2

\* a result not computed yet, and a call that ended in an uncaught exception
Pending == [status |-> "pending"]
Raised == [status |-> "raised"]

RECURSIVE GCD(_, _)
GCD(a, b) == IF b = 0 THEN a ELSE GCD(b, a % b)

Abs(x) == IF x < 0 THEN -x ELSE x

\* the fraction n/d (d # 0) in lowest terms with a positive denominator
Rat(n, d) ==
    LET g == GCD(Abs(n), Abs(d))
        s == IF d < 0 THEN -1 ELSE 1
    IN  [n |-> s * (n \div g), d |-> s * (d \div g)]

FromInt(k) == [n |-> k, d |-> 1]
RatSub(a, b) == Rat(a.n * b.d - b.n * a.d, a.d * b.d)
RatAbs(a) == [n |-> Abs(a.n), d |-> a.d]
RatLess(a, b) == a.n * b.d < b.n * a.d
RatLeq(a, b) == a.n * b.d <= b.n * a.d

RECURSIVE SumSeq(_)
SumSeq(s) == IF s = <<>> THEN 0 ELSE Head(s) + SumSeq(Tail(s))

RECURSIVE SortSet(_)
SortSet(S) ==
    IF S = {} THEN <<>>
    ELSE LET m == CHOOSE x \in S : \A y \in S : x <= y
         IN  <<m>> \o SortSet(S \ {m})

\* the k-th smallest (1-based) value of a non-empty sequence of integers
Kth(ks, k) ==
    CHOOSE v \in {ks[i] : i \in 1..Len(ks)} :
        /\ Cardinality({i \in 1..Len(ks) : ks[i] < v}) < k
        /\ Cardinality({i \in 1..Len(ks) : ks[i] <= v}) >= k

-----------------------------------------------------------------------------
(* data_module.parse_cboe_csv *)

CONTRACT_MULTIPLIER == 100

\* pd.to_numeric(..., errors='coerce').fillna(0): an unparseable cell becomes 0
to_numeric_fillna(cell) == IF IsNone(cell) THEN 0 ELSE Val(cell)

\* (variant: the Bid/Ask midpoint preferred to Last)
spot_from_header_mid_first(h) ==
    IF ~IsNone(h.Bid) /\ ~IsNone(h.Ask) /\ Val(h.Ask) > 0
    THEN Some((Val(h.Bid) + Val(h.Ask)) \div 2)
    ELSE h.Last

\* the spot price of the header block: Last when it is there and not 0, else
\* the Bid/Ask midpoint when both are there and Ask > 0 (exact when Bid + Ask
\* is even), else what Last gave (None or 0)
spot_from_header(h) ==
    IF ~IsNone(h.Last) /\ Val(h.Last) # 0 THEN h.Last
    ELSE IF ~IsNone(h.Bid) /\ ~IsNone(h.Ask) /\ Val(h.Ask) > 0
         THEN Some((Val(h.Bid) + Val(h.Ask)) \div 2)
         ELSE h.Last

\* df_options_raw['Strike'].median() over the raw rows: empty cells are
\* skipped, the median of nothing is NaN, and the median of an even number of
\* strikes is the mean of the two middle ones (exact when their sum is even)
strike_median(rows) ==
    LET Filled(raw) == ~IsNone(raw.Strike)
        present == SelectSeq(rows, Filled)
        ks == [i \in 1..Len(present) |-> Val(present[i].Strike)]
        n == Len(present)
    IN  IF n = 0 THEN NaNSpot
        ELSE IF n % 2 = 1 THEN Some(Kth(ks, (n + 1) \div 2))
        ELSE Some((Kth(ks, n \div 2) + Kth(ks, n \div 2 + 1)) \div 2)

\* (variant: the analysis date is always today)
analysis_date_today(h, today) == today

\* analysis date: the header date when it parses, else today
analysis_date(h, today) == IF IsNone(h.Date) THEN today ELSE Val(h.Date)

\* one long-format row before the filter; side is "Call" or "Put"
long_row(raw, side, label, adate) ==
    LET half == IF side = "Call" THEN raw.call ELSE raw.put
    IN  [idx |-> label,
         Type |-> side,
         Strike |-> to_numeric_fillna(raw.Strike),
         Expiration_Date |-> raw.Expiration_Date,
         Vol |-> to_numeric_fillna(half.Volume),
         OI |-> to_numeric_fillna(half.Open_Interest),
         IV |-> to_numeric_fillna(half.IV),
         Gamma |-> to_numeric_fillna(half.Gamma),
         DTE_Days |-> IF IsNone(raw.Expiration_Date) THEN None
                      ELSE Some(Val(raw.Expiration_Date) - adate)]

\* pd.concat([df_calls, df_puts], ignore_index=True): all calls, then all puts
options_clean(rows, adate) ==
    [i \in 1..(2 * Len(rows)) |->
        IF i <= Len(rows) THEN long_row(rows[i], "Call", i - 1, adate)
        ELSE long_row(rows[i - Len(rows)], "Put", i - 1, adate)]

\* df[df['OI'] > 0], then df[df['DTE_Days'] >= 0]: a NaN DTE compares False
KeepOI_NonNegative(r) == r.OI >= 0
KeepOI(r) == r.OI > 0
KeepDTE(r) == ~IsNone(r.DTE_Days) /\ Val(r.DTE_Days) >= 0
filter_rows(df) == SelectSeq(SelectSeq(df, KeepOI), KeepDTE)

\* GEX_Notional and GEX_Signed of one retained row
gex_notional(r, spot) ==
    IF ~IsNone(spot) /\ ~IsNaN(spot) /\ Val(spot) > 0
    THEN (r.Gamma * r.OI * CONTRACT_MULTIPLIER * Val(spot) * Val(spot)) \div 100
    ELSE 0

\* (variant: the notional value on both sides)
gex_signed_unsigned(r, spot) == gex_notional(r, spot)

gex_signed(r, spot) ==
    IF ~IsNone(spot) /\ ~IsNaN(spot) /\ Val(spot) > 0
    THEN (IF r.Type = "Call" THEN gex_notional(r, spot) ELSE -gex_notional(r, spot))
    ELSE 0

with_gex(r, spot) ==
    [idx |-> r.idx, Type |-> r.Type, Strike |-> r.Strike,
     Expiration_Date |-> Val(r.Expiration_Date),
     Vol |-> r.Vol, OI |-> r.OI, IV |-> r.IV, Gamma |-> r.Gamma,
     DTE_Days |-> Val(r.DTE_Days),
     GEX_Notional |-> gex_notional(r, spot),
     GEX_Signed |-> gex_signed(r, spot)]

\* the lines the parser prints
WARN_SPOT == "[WARN] Spot price non trovato nell'header. Usata mediana Strike"
PARSE_DONE == "[data_module] Parsing completato"
PARSE_ERROR == "[ERRORE in data_module.parse_cboe_csv]"

NoneTriple == [ok |-> FALSE, df |-> <<>>, spot |-> None, ts |-> None]

\* (variant: the except branch hands back what was extracted before the failure)
parse_failure_partial(file) ==
    [ok |-> FALSE, df |-> <<>>, spot |-> spot_from_header(file.header),
     ts |-> Some(file.header.Date), log |-> <<PARSE_ERROR>>, columns |-> {}]

\* the outer except branch: print the error, return (None, None, None)
parse_failure(file) ==
    [ok |-> NoneTriple.ok, df |-> NoneTriple.df, spot |-> NoneTriple.spot,
     ts |-> NoneTriple.ts, log |-> <<PARSE_ERROR>>, columns |-> {}]

\* the header's spot, or the median strike when it is None or 0
resolved_spot(file) ==
    LET hs == spot_from_header(file.header)
    IN  IF IsNone(hs) \/ Val(hs) = 0 THEN strike_median(file.rows) ELSE hs

\* what the median fallback prints
spot_log(file) ==
    LET hs == spot_from_header(file.header)
    IN  IF IsNone(hs) \/ Val(hs) = 0 THEN <<WARN_SPOT>> ELSE <<>>

\* Column names. The wide table has the call columns, 'Strike', then the put
\* columns, which pandas suffixes with '.1' where they repeat a call column.
CALL_COLUMNS ==
    {"Expiration Date", "Calls", "Last Sale", "Net", "Bid", "Ask", "Volume", "IV",
     "Delta", "Gamma", "Open Interest"}
PUT_COLUMNS ==
    {"Puts", "Last Sale.1", "Net.1", "Bid.1", "Ask.1", "Volume.1", "IV.1", "Delta.1",
     "Gamma.1", "Open Interest.1"}

\* c.replace('.1', '') on the column names the files of the model carry
strip_dup_suffix(c) ==
    CASE c = "Last Sale.1" -> "Last Sale"
      [] c = "Net.1" -> "Net"
      [] c = "Bid.1" -> "Bid"
      [] c = "Ask.1" -> "Ask"
      [] c = "Volume.1" -> "Volume"
      [] c = "IV.1" -> "IV"
      [] c = "Delta.1" -> "Delta"
      [] c = "Gamma.1" -> "Gamma"
      [] c = "Open Interest.1" -> "Open Interest"
      [] c = "Theta.1" -> "Theta"
      [] c = "Vega.1" -> "Vega"
      [] OTHER -> c

\* call_rename_map.get(c, c) and put_rename_map.get(c, c), as the set of
\* names c contributes: a name the maps do not know is left as it is
rename(c) ==
    CASE c \in {"Calls", "Puts"} -> {"Symbol"}
      [] c = "Last Sale" -> {"Last"}
      [] c = "Volume" -> {"Vol"}
      [] c = "Open Interest" -> {"OI"}
      [] OTHER -> {c}

\* the columns of df_options_clean after the concat of the renamed halves
clean_columns(file) ==
    LET calls == (IF file.has_oi_col THEN CALL_COLUMNS
                  ELSE CALL_COLUMNS \ {"Open Interest"}) \cup file.extra_call_cols
        puts == (IF file.has_oi_col THEN PUT_COLUMNS
                 ELSE PUT_COLUMNS \ {"Open Interest.1"}) \cup file.extra_put_cols
    IN  UNION {rename(c) : c \in calls \cup {"Strike"}}
        \cup UNION {rename(strip_dup_suffix(c)) : c \in {"Strike", "Expiration Date"} \cup puts}
        \cup {"Type"}

cols_to_keep ==
    {"Type", "Strike", "Expiration Date", "Last", "Bid", "Ask", "Vol", "OI", "IV",
     "Delta", "Gamma"}

\* the columns of the returned table: the kept ones and the computed ones
output_columns(file) ==
    (clean_columns(file) \cap cols_to_keep)
    \cup {"DTE_Days", "DTE_Years", "Moneyness", "GEX_Notional", "GEX_Signed"}

\* The returned timestamp is the header's date text, "Data non disponibile"
\* when the header has none: Some(d) with d the day it parses to, or None when
\* it parses to no date.
parse_cboe_csv(file, today) ==
    IF ~file.has_header_row \/ ~file.has_strike_col \/ ~file.has_oi_col
    THEN parse_failure(file)
    ELSE
        LET spot == resolved_spot(file)
            adate == analysis_date(file.header, today)
            kept == filter_rows(options_clean(file.rows, adate))
        IN  [ok |-> TRUE,
             df |-> [i \in 1..Len(kept) |-> with_gex(kept[i], spot)],
             spot |-> spot,
             ts |-> Some(file.header.Date),
             log |-> spot_log(file) \o <<PARSE_DONE>>,
             columns |-> output_columns(file)]

-----------------------------------------------------------------------------
(* calculations_module: helpers shared by the metric functions *)

\* the column col of a table, as a sequence in row order
Column(df, col) == [i \in 1..Len(df) |-> df[i][col]]

\* sorted distinct strikes of a table (the keys of groupby('Strike'))
StrikeKeys(df) == SortSet({df[i].Strike : i \in 1..Len(df)})

\* groupby('Strike')[col].sum() evaluated at one key
SumAt(df, k, col) ==
    LET AtK(r) == r.Strike = k IN SumSeq(Column(SelectSeq(df, AtK), col))

\* the relevance band [0.75*spot, 1.25*spot]
InBand(k, spot) == 4 * k >= 3 * spot /\ 4 * k <= 5 * spot

relevant(df, spot) == LET Band(r) == InBand(r.Strike, spot) IN SelectSeq(df, Band)

IsCall(r) == r.Type = "Call"
IsPut(r) == r.Type = "Put"

\* (variant: the last row holding the maximum)
last_max(s) ==
    CHOOSE i \in 1..Len(s) :
        /\ \A j \in 1..Len(s) : s[j] <= s[i]
        /\ \A j \in (i + 1)..Len(s) : s[j] < s[i]

\* Series.idxmax(): position of the first row holding the maximum (non-empty s)
first_max(s) ==
    CHOOSE i \in 1..Len(s) :
        /\ \A j \in 1..Len(s) : s[j] <= s[i]
        /\ \A j \in 1..(i - 1) : s[j] < s[i]

\* Series.idxmin(): position of the first row holding the minimum (non-empty s)
first_min(s) ==
    CHOOSE i \in 1..Len(s) :
        /\ \A j \in 1..Len(s) : s[i] <= s[j]
        /\ \A j \in 1..(i - 1) : s[i] < s[j]

-----------------------------------------------------------------------------
(* calculate_gex_metrics *)

\* np.sign
sign(x) == IF x > 0 THEN 1 ELSE IF x < 0 THEN -1 ELSE 0

\* (variant: a later row of a strike overwrites the earlier ones)
gex_by_strike_overwrite(df) ==
    LET keys == StrikeKeys(df)
    IN  [i \in 1..Len(keys) |->
            LET AtK(r) == r.Strike = keys[i]
                rows == SelectSeq(df, AtK)
            IN  [Strike |-> keys[i], Net_GEX |-> rows[Len(rows)].GEX_Signed]]

\* groupby('Strike')['GEX_Signed'].sum(), sorted by Strike
gex_by_strike(df) ==
    LET keys == StrikeKeys(df)
    IN  [i \in 1..Len(keys) |->
            [Strike |-> keys[i], Net_GEX |-> SumAt(df, keys[i], "GEX_Signed")]]

\* (variant: only strictly opposite signs count as a change)
flip_indices_strict(prof) ==
    {i \in 1..(Len(prof) - 1) : prof[i].Net_GEX * prof[i + 1].Net_GEX < 0}

\* (variant: compares the values instead of their signs)
flip_indices_by_value(prof) ==
    {i \in 1..(Len(prof) - 1) : prof[i].Net_GEX # prof[i + 1].Net_GEX}

\* positions i whose sign differs from the sign at i+1 (the last row has no next)
flip_indices(prof) ==
    {i \in 1..(Len(prof) - 1) : sign(prof[i].Net_GEX) # sign(prof[i + 1].Net_GEX)}

\* linear interpolation of the zero of Net_GEX between rows i and i+1
zero_cross(prof, i) ==
    LET x0 == prof[i].Strike
        y0 == prof[i].Net_GEX
        x1 == prof[i + 1].Strike
        y1 == prof[i + 1].Net_GEX
    IN  Rat(x0 * (y1 - y0) - y0 * (x1 - x0), y1 - y0)

\* the candidates list, in ascending index order, skipping y1 - y0 = 0
RECURSIVE candidates_from(_, _)
candidates_from(prof, i) ==
    IF i >= Len(prof) THEN <<>>
    ELSE (IF i \in flip_indices(prof) /\ prof[i + 1].Net_GEX - prof[i].Net_GEX # 0
          THEN <<zero_cross(prof, i)>> ELSE <<>>) \o candidates_from(prof, i + 1)

\* (variant: the first crossing in strike order)
closest_to_spot_first(cands, spot) == cands[1]

\* min(candidates, key=lambda x: abs(x - spot_price)): the first minimal one
closest_to_spot(cands, spot) ==
    LET key(c) == RatAbs(RatSub(c, FromInt(spot)))
        i == CHOOSE i \in 1..Len(cands) :
                /\ \A j \in 1..Len(cands) : RatLeq(key(cands[i]), key(cands[j]))
                /\ \A j \in 1..(i - 1) : RatLess(key(cands[i]), key(cands[j]))
    IN  cands[i]

\* (variant: the difference taken the other way round)
spot_delta_reversed(spot, flip) == RatSub(flip, FromInt(spot))

\* spot_delta = spot_price - gamma_switch_local
spot_delta(spot, flip) == RatSub(FromInt(spot), flip)

calculate_gex_metrics(df, spot) ==
    LET prof == gex_by_strike(df)
        cands == IF Len(prof) > 1 THEN candidates_from(prof, 1) ELSE <<>>
        gsp == IF cands # <<>> THEN Some(closest_to_spot(cands, spot)) ELSE None
    IN  [status |-> "ok",
         df_gex_profile |-> prof,
         total_net_gex |-> SumSeq(Column(prof, "Net_GEX")),
         gamma_switch_point |-> gsp,
         spot_switch_delta |->
            IF IsNone(gsp) THEN None ELSE Some(spot_delta(spot, Val(gsp)))]

-----------------------------------------------------------------------------
(* calculate_oi_walls *)

\* (variant: an empty side defaults to strike 0)
wall_of_defaulted(side_rows) ==
    IF side_rows = <<>> THEN [strike |-> Some(0), oi |-> 0]
    ELSE LET i == first_max(Column(side_rows, "OI"))
         IN  [strike |-> Some(side_rows[i].Strike), oi |-> side_rows[i].OI]

\* (strike, OI) of the first row with the largest OI; (None, 0) for an empty side
wall_of(side_rows) ==
    IF side_rows = <<>> THEN [strike |-> None, oi |-> 0]
    ELSE LET i == first_max(Column(side_rows, "OI"))
         IN  [strike |-> Some(side_rows[i].Strike), oi |-> side_rows[i].OI]

\* (variant: the relevance band is not applied)
oi_puts_support_no_band(df, spot) ==
    LET Sel(r) == IsPut(r) /\ r.Strike <= spot IN SelectSeq(df, Sel)

\* puts of the band at or below spot; calls of the band at or above spot
oi_puts_support(df, spot) ==
    LET Sel(r) == IsPut(r) /\ r.Strike <= spot IN SelectSeq(relevant(df, spot), Sel)

oi_calls_res(df, spot) ==
    LET Sel(r) == IsCall(r) /\ r.Strike >= spot IN SelectSeq(relevant(df, spot), Sel)

\* the two-sided per-strike table built from the grouped call and put sums
two_sided_profile(rel, col) ==
    LET keys == StrikeKeys(rel)
    IN  [i \in 1..Len(keys) |->
            [Strike |-> keys[i],
             Calls |-> SumAt(SelectSeq(rel, IsCall), keys[i], col),
             Puts |-> SumAt(SelectSeq(rel, IsPut), keys[i], col),
             Puts_Neg |-> -SumAt(SelectSeq(rel, IsPut), keys[i], col)]]

calculate_oi_walls(df, spot) ==
    LET pw == wall_of(oi_puts_support(df, spot))
        cw == wall_of(oi_calls_res(df, spot))
    IN  [status |-> "ok",
         df_oi_profile |-> two_sided_profile(relevant(df, spot), "OI"),
         put_wall_strike |-> pw.strike,
         put_wall_oi |-> pw.oi,
         call_wall_strike |-> cw.strike,
         call_wall_oi |-> cw.oi]

-----------------------------------------------------------------------------
(* calculate_max_pain *)

\* (variant: no clipping)
clip0_identity(x) == x

\* clip(min=0)
clip0(x) == IF x < 0 THEN 0 ELSE x

\* total intrinsic payout if the underlying settles at expiry_price
total_payout(df, expiry_price) ==
    LET calls == SelectSeq(df, IsCall)
        puts == SelectSeq(df, IsPut)
        call_payout ==
            SumSeq([i \in 1..Len(calls) |->
                        clip0(expiry_price - calls[i].Strike) * calls[i].OI])
        put_payout ==
            SumSeq([i \in 1..Len(puts) |->
                        clip0(puts[i].Strike - expiry_price) * puts[i].OI])
    IN  call_payout + put_payout

calculate_max_pain(df) ==
    LET strikes == StrikeKeys(df)
        df_payouts ==
            [i \in 1..Len(strikes) |->
                [Strike |-> strikes[i], Total_Payout |-> total_payout(df, strikes[i])]]
    IN  IF df_payouts = <<>>
        THEN [status |-> "ok", max_pain_strike |-> None, df_payouts |-> <<>>]
        ELSE [status |-> "ok",
              max_pain_strike |->
                  Some(df_payouts[first_min(Column(df_payouts, "Total_Payout"))].Strike),
              df_payouts |-> df_payouts]

-----------------------------------------------------------------------------
(* calculate_pc_ratios *)

\* num / den when den > 0, else np.nan
\* (variant: a zero denominator reported as the ratio 0)
ratio_or_zero(num, den) == IF den > 0 THEN Some(Rat(num, den)) ELSE Some(FromInt(0))

ratio_or_nan(num, den) == IF den > 0 THEN Some(Rat(num, den)) ELSE None

calculate_pc_ratios(df) ==
    LET puts == SelectSeq(df, IsPut)
        calls == SelectSeq(df, IsCall)
    IN  [status |-> "ok",
         pc_oi_ratio |-> ratio_or_nan(SumSeq(Column(puts, "OI")),
                                      SumSeq(Column(calls, "OI"))),
         pc_vol_ratio |-> ratio_or_nan(SumSeq(Column(puts, "Vol")),
                                       SumSeq(Column(calls, "Vol")))]

-----------------------------------------------------------------------------
(* calculate_expected_move *)

\* the result of the except branch
AllNoneMove ==
    [status |-> "ok", move |-> None, upper_band |-> None, lower_band |-> None,
     iv_atm |-> None]

\* (variant: no floor on the time value)
time_value_unfloored(dte_days) == Rat(4 * dte_days, 1461)

\* DTE_Days / 365.25, floored to 1/365.25 when it is <= 0
time_value(dte_days) == IF dte_days <= 0 THEN Rat(4, 1461) ELSE Rat(4 * dte_days, 1461)

\* move = spot * iv_atm * sqrt(dte_years) is kept as the pair (coef, radicand)
\* standing for coef * sqrt(radicand); a band is spot + sgn * move.
calculate_expected_move(df, spot) ==
    IF df = <<>> THEN AllNoneMove   \* idxmin of an empty Series raises, caught
    ELSE
        LET dist == [i \in 1..Len(df) |-> Abs(df[i].Strike - spot)]
            atm_strike_val == df[first_min(dist)].Strike
            AtAtm(r) == r.Strike = atm_strike_val
            df_atm == SelectSeq(df, AtAtm)
            iv_atm == Rat(SumSeq(Column(df_atm, "IV")), Len(df_atm))
            dte_years == time_value(df_atm[1].DTE_Days)
            move == [coef |-> Rat(spot * iv_atm.n, iv_atm.d), radicand |-> dte_years]
        IN  [status |-> "ok",
             move |-> Some(move),
             upper_band |-> Some([base |-> spot, sgn |-> 1, move |-> move]),
             lower_band |-> Some([base |-> spot, sgn |-> -1, move |-> move]),
             iv_atm |-> Some(iv_atm)]

-----------------------------------------------------------------------------
(* calculate_volume_profile *)

calculate_volume_profile(df, spot) ==
    [status |-> "ok", df_vol_profile |-> two_sided_profile(relevant(df, spot), "Vol")]

-----------------------------------------------------------------------------
(* calculate_activity_ratio *)

\* one row of the activity table: per-side sums and Vol / (OI + 1)
activity_row(rel, k) ==
    LET call_oi == SumAt(SelectSeq(rel, IsCall), k, "OI")
        call_vol == SumAt(SelectSeq(rel, IsCall), k, "Vol")
        put_oi == SumAt(SelectSeq(rel, IsPut), k, "OI")
        put_vol == SumAt(SelectSeq(rel, IsPut), k, "Vol")
    IN  [Strike |-> k,
         Call_OI |-> call_oi, Call_Vol |-> call_vol,
         Put_OI |-> put_oi, Put_Vol |-> put_vol,
         Call_Activity_Ratio |-> Rat(call_vol, call_oi + 1),
         Put_Activity_Ratio |-> Rat(put_vol, put_oi + 1),
         Put_Activity_Ratio_Neg |-> Rat(-put_vol, put_oi + 1)]

\* volume-weighted average strike of the band, or spot when no volume traded
drift_score_of(rel, spot) ==
    LET total_relevant_volume == SumSeq(Column(rel, "Vol"))
        weighted == SumSeq([i \in 1..Len(rel) |-> rel[i].Strike * rel[i].Vol])
    IN  IF total_relevant_volume > 0 THEN Rat(weighted, total_relevant_volume)
        ELSE FromInt(spot)

\* df_grouped[('OI', 'Call')] and df_grouped[('OI', 'Put')] exist only when the
\* band holds a row of that type: otherwise the lookup raises KeyError, which
\* nothing in the function catches.
calculate_activity_ratio(df, spot) ==
    LET rel == relevant(df, spot)
        keys == StrikeKeys(rel)
    IN  IF SelectSeq(rel, IsCall) = <<>> \/ SelectSeq(rel, IsPut) = <<>> THEN Raised
        ELSE [status |-> "ok",
              df_activity_profile |-> [i \in 1..Len(keys) |-> activity_row(rel, keys[i])],
              drift_score |-> drift_score_of(rel, spot)]

-----------------------------------------------------------------------------
(* Uploaded files *)

WideRow(exp, k, c_oi, c_gamma, p_oi, p_gamma) ==
    [Expiration_Date |-> exp,
     Strike |-> k,
     call |-> [Volume |-> Some(1), IV |-> Some(20), Gamma |-> c_gamma,
               Open_Interest |-> c_oi],
     put |-> [Volume |-> Some(1), IV |-> Some(20), Gamma |-> p_gamma,
              Open_Interest |-> p_oi]]

Header(last, date) == [Last |-> last, Bid |-> None, Ask |-> None, Date |-> date]

\* all sequences of at most MaxRows rows drawn from Rows
RowSeqs(Rows) == UNION {[1..n -> Rows] : n \in 0..MaxRows}

FileOf(header, rows) ==
    [has_header_row |-> TRUE, has_strike_col |-> TRUE, has_oi_col |-> TRUE,
     extra_call_cols |-> {}, extra_put_cols |-> {},
     header |-> header, rows |-> rows]

\* Files that exercise the row filter: unparseable, past, same-day and future
\* expirations; unparseable, zero and positive open interest; a strike inside
\* and one outside the relevance band of spot 4.
ParseRows ==
    {WideRow(e, Some(c[1]), c[2], Some(1), c[3], Some(1)) :
        e \in {None, Some(9), Some(10), Some(12)},
        c \in {<<4, None, Some(1)>>, <<4, Some(0), Some(2)>>,
               <<4, Some(2), Some(0)>>, <<6, Some(1), Some(1)>>}}

ParseFiles == {FileOf(Header(Some(4), Some(10)), rows) : rows \in RowSeqs(ParseRows)}

\* Files that exercise the gamma profile: one expiration, spot 5, strikes on both
\* sides of spot, and per strike a positive, a negative, a cancelling and a
\* zero-gamma pair of contracts.
GexRows ==
    {WideRow(Some(12), Some(k), c[1], c[2], c[3], c[4]) :
        k \in {2, 4, 6, 8},
        c \in {<<Some(1), Some(1), Some(0), Some(1)>>,
               <<Some(0), Some(1), Some(2), Some(1)>>,
               <<Some(1), Some(1), Some(1), Some(1)>>,
               <<Some(1), Some(0), Some(0), Some(0)>>}}

GexFiles == {FileOf(Header(Some(5), Some(10)), rows) : rows \in RowSeqs(GexRows)}

\* Files that exercise open interest by strike: one expiration, spot 4 (band
\* [3, 5]), strikes below, inside and above the band, and call/put open
\* interest that ties or differs between rows.
OiRows ==
    {WideRow(Some(12), Some(k), c[1], Some(1), c[2], Some(1)) :
        k \in {2, 3, 4, 5, 6},
        c \in {<<Some(1), Some(2)>>, <<Some(2), Some(1)>>, <<Some(0), Some(3)>>}}

OiFiles == {FileOf(Header(Some(4), Some(10)), rows) : rows \in RowSeqs(OiRows)}

\* one side of a wide row, and a wide row from its two sides
Half(vol, iv, gamma, oi) ==
    [Volume |-> vol, IV |-> iv, Gamma |-> gamma, Open_Interest |-> oi]

WideRowOf(exp, k, call, put) ==
    [Expiration_Date |-> exp, Strike |-> k, call |-> call, put |-> put]

\* Files that exercise the volume metrics: traded and untraded contracts on
\* either side, a side without open interest (dropped by the filter), spot
\* 4 with band [3, 5], strike 2 outside the band.
VolRows ==
    {WideRowOf(Some(12), Some(k), Half(Some(c[1]), Some(20), Some(1), Some(c[2])),
                                  Half(Some(c[3]), Some(20), Some(1), Some(c[4]))) :
        k \in {2, 4, 5},
        c \in {<<0, 1, 1, 2>>, <<2, 1, 0, 2>>, <<2, 0, 3, 1>>, <<0, 1, 1, 0>>,
               <<0, 1, 0, 2>>}}

VolFiles == {FileOf(Header(Some(4), Some(10)), rows) : rows \in RowSeqs(VolRows)}

\* Files with empty cells: a missing strike, a missing IV on either side, and
\* rows without open interest (dropped by the filter, so that an expiration
\* can be left with no contract).
MissingRows ==
    {WideRowOf(Some(12), k, Half(Some(1), c[1], Some(1), Some(c[2])),
                            Half(Some(1), c[3], Some(1), Some(c[4]))) :
        k \in {None, Some(3), Some(4)},
        c \in {<<None, 1, Some(20), 1>>, <<Some(20), 1, None, 1>>,
               <<None, 1, None, 0>>, <<Some(20), 0, Some(20), 0>>}}

MissingFiles == {FileOf(Header(Some(4), Some(10)), rows) : rows \in RowSeqs(MissingRows)}

\* Files that exercise the expected move: an expiration on the analysis date
\* (DTE 0) and a later one, IV 0 and positive IVs, a side without open interest.
IvRows ==
    {WideRowOf(Some(e), Some(k), Half(Some(1), Some(c[1]), Some(1), Some(c[2])),
                                 Half(Some(1), Some(c[3]), Some(1), Some(c[4]))) :
        e \in {10, 12},
        k \in {4, 6},
        c \in {<<0, 1, 0, 1>>, <<20, 1, 30, 1>>, <<20, 1, 0, 0>>}}

IvFiles == {FileOf(Header(Some(4), Some(10)), rows) : rows \in RowSeqs(IvRows)}

HeaderOf(last, bid, ask, date) == [Last |-> last, Bid |-> bid, Ask |-> ask, Date |-> date]

FileWith(header_row, strike_col, oi_col, header, rows) ==
    [has_header_row |-> header_row, has_strike_col |-> strike_col,
     has_oi_col |-> oi_col, extra_call_cols |-> {}, extra_put_cols |-> {},
     header |-> header, rows |-> rows]

\* Header blocks: Last absent, 0 or 4; Bid absent or 2; Ask absent, 0 or 10;
\* a date that parses to day 10 or no parseable date.
Headers ==
    {HeaderOf(l, b, a, d) :
        l \in {None, Some(0), Some(4)}, b \in {None, Some(2)},
        a \in {None, Some(0), Some(10)}, d \in {None, Some(10)}}

\* rows under those headers: an expiration on day 10 (before the wall clock's
\* day 11) and one on day 12, strikes 0, 2 and 6
HeaderRows ==
    {WideRowOf(Some(c[1]), Some(c[2]), Half(Some(1), Some(20), Some(c[3]), Some(1)),
                                       Half(Some(1), Some(20), Some(c[4]), Some(1))) :
        c \in {<<10, 2, 1, 2>>, <<12, 0, 1, 1>>, <<12, 6, 0, 3>>, <<12, 2, 2, 1>>}}

\* well-formed files, and files without the 'Expiration Date' header row,
\* without a 'Strike' column or without an 'Open Interest' column
HeaderFiles ==
    {FileWith(f[1], f[2], f[3], h, rows) :
        f \in {<<TRUE, TRUE, TRUE>>, <<FALSE, TRUE, TRUE>>, <<TRUE, FALSE, TRUE>>,
               <<TRUE, TRUE, FALSE>>},
        h \in Headers,
        rows \in RowSeqs(HeaderRows)}

\* Files for the dashboard run: a strike with a call and a put, a strike
\* whose put has no open interest, and a row without any open interest.
AppRows ==
    {WideRow(Some(12), Some(4), Some(1), Some(1), Some(1), Some(1)),
     WideRow(Some(12), Some(4), Some(2), Some(1), Some(0), Some(1)),
     WideRow(Some(13), Some(6), Some(0), Some(1), Some(0), Some(1))}

AppFiles == {FileOf(Header(Some(4), Some(10)), rows) : rows \in RowSeqs(AppRows)}

\* Files whose table carries columns the rename maps do not know: 'Theta'
\* and 'Vega' on the call side, 'Theta.1' and 'Vega.1' on the put side.
FileCols(call_extra, put_extra, header, rows) ==
    [has_header_row |-> TRUE, has_strike_col |-> TRUE, has_oi_col |-> TRUE,
     extra_call_cols |-> call_extra, extra_put_cols |-> put_extra,
     header |-> header, rows |-> rows]

ColumnFiles ==
    {FileCols(x[1], x[2], Header(Some(4), Some(10)), rows) :
        x \in {<<{}, {}>>, <<{"Theta"}, {"Theta.1"}>>, <<{"Theta", "Vega"}, {}>>,
               <<{}, {"Vega.1"}>>},
        rows \in RowSeqs(AppRows)}

\* Files for the export and the tabs, spot 4: strike 4 untraded with IV 0 and
\* net GEX 0; strike 5 traded on the call side with positive net GEX; strike
\* 3 traded on the put side with negative net GEX; strike 5 with a call only;
\* strike 4 traded on both sides with positive net GEX.
DashRows ==
    {WideRowOf(Some(12), Some(4), Half(Some(0), Some(0), Some(1), Some(1)),
                                  Half(Some(0), Some(0), Some(1), Some(1))),
     WideRowOf(Some(12), Some(5), Half(Some(2), Some(20), Some(2), Some(1)),
                                  Half(Some(0), Some(20), Some(1), Some(1))),
     WideRowOf(Some(12), Some(3), Half(Some(0), Some(20), Some(1), Some(1)),
                                  Half(Some(3), Some(30), Some(2), Some(1))),
     WideRowOf(Some(12), Some(5), Half(Some(1), Some(20), Some(1), Some(1)),
                                  Half(Some(0), Some(20), Some(1), Some(0))),
     WideRowOf(Some(12), Some(4), Half(Some(1), Some(20), Some(1), Some(2)),
                                  Half(Some(1), Some(20), Some(1), Some(1)))}

DashFiles == {FileOf(Header(Some(4), Some(10)), rows) : rows \in RowSeqs(DashRows)}

\* Files for repeated runs: a header date that parses to day 10 or no
\* parseable date, expirations on days 11, 12 and 13.
CacheRows ==
    {WideRow(Some(e), Some(4), Some(1), Some(1), Some(1), Some(1)) : e \in {11, 12, 13}}

CacheFiles ==
    {FileOf(Header(Some(4), d), rows) : d \in {None, Some(10)}, rows \in RowSeqs(CacheRows)}

-----------------------------------------------------------------------------
(* The script: load, select an expiration, compute the seven metrics *)

InitWith(Files) ==
    /\ uploaded_file \in Files
    /\ now = 11
    /\ pc = "start"
    /\ df_processed = <<>>
    /\ spot_price = None
    /\ data_timestamp = None
    /\ parse_log = <<>>
    /\ df_columns = {}
    /\ export_data = Pending
    /\ display = Pending
    /\ df_selected_expiry = <<>>
    /\ gex_metrics = Pending
    /\ oi_metrics = Pending
    /\ vol_metrics = Pending
    /\ activity_metrics = Pending
    /\ max_pain = Pending
    /\ pc_ratios = Pending
    /\ expected_move = Pending

Init == InitWith(ParseFiles)
InitGex == InitWith(GexFiles)
InitOi == InitWith(OiFiles)

InitVol == InitWith(VolFiles)

InitMissing == InitWith(MissingFiles)

InitIv == InitWith(IvFiles)

InitHeader == InitWith(HeaderFiles)

InitApp == InitWith(AppFiles)

InitColumns == InitWith(ColumnFiles)

InitDash == InitWith(DashFiles)

InitCache == InitWith(CacheFiles)

\* load_data: parse the uploaded file; on failure the script waits for a new file
LoadData ==
    /\ pc = "start"
    /\ LET res == parse_cboe_csv(uploaded_file, now)
       IN  /\ df_processed' = res.df
           /\ spot_price' = res.spot
           /\ data_timestamp' = res.ts
           /\ parse_log' = res.log
           /\ df_columns' = res.columns
           /\ pc' = IF res.ok /\ ~IsNone(res.spot) THEN "loaded" ELSE "failed"
    /\ UNCHANGED <<uploaded_file, now, export_data, display, df_selected_expiry,
                   gex_metrics, oi_metrics, vol_metrics, activity_metrics, max_pain,
                   pc_ratios, expected_move>>

\* The expirations a slice can be asked for. app.py offers the expirations of
\* the filtered table; the metric functions are also specified for an empty
\* slice, so the selection ranges over every expiration the file lists, which
\* adds the slices whose rows were all filtered out.
listed_expirations(file) ==
    {Val(file.rows[i].Expiration_Date) :
        i \in {j \in 1..Len(file.rows) : ~IsNone(file.rows[j].Expiration_Date)}}

\* df_processed[df_processed['Expiration Date'] == selected_expiry_date]
SelectExpiry ==
    /\ pc = "loaded"
    /\ \E d \in listed_expirations(uploaded_file) :
          LET OfDate(r) == r.Expiration_Date = d
          IN  df_selected_expiry' = SelectSeq(df_processed, OfDate)
    /\ pc' = "gex"
    /\ UNCHANGED <<uploaded_file, now, df_processed, spot_price, data_timestamp,
                   parse_log, df_columns, export_data, display,
                   gex_metrics, oi_metrics, vol_metrics, activity_metrics, max_pain,
                   pc_ratios, expected_move>>

CalcGex ==
    /\ pc = "gex"
    /\ gex_metrics' = calculate_gex_metrics(df_selected_expiry, Val(spot_price))
    /\ pc' = "oi"
    /\ UNCHANGED <<uploaded_file, now, df_processed, spot_price, data_timestamp,
                   parse_log, df_columns, export_data, display,
                   df_selected_expiry, oi_metrics, vol_metrics, activity_metrics,
                   max_pain, pc_ratios, expected_move>>

CalcOiWalls ==
    /\ pc = "oi"
    /\ oi_metrics' = calculate_oi_walls(df_selected_expiry, Val(spot_price))
    /\ pc' = "vol"
    /\ UNCHANGED <<uploaded_file, now, df_processed, spot_price, data_timestamp,
                   parse_log, df_columns, export_data, display,
                   df_selected_expiry, gex_metrics, vol_metrics, activity_metrics,
                   max_pain, pc_ratios, expected_move>>

CalcVolumeProfile ==
    /\ pc = "vol"
    /\ vol_metrics' = calculate_volume_profile(df_selected_expiry, Val(spot_price))
    /\ pc' = "activity"
    /\ UNCHANGED <<uploaded_file, now, df_processed, spot_price, data_timestamp,
                   parse_log, df_columns, export_data, display,
                   df_selected_expiry, gex_metrics, oi_metrics, activity_metrics,
                   max_pain, pc_ratios, expected_move>>

CalcActivityRatio ==
    /\ pc = "activity"
    /\ activity_metrics' = calculate_activity_ratio(df_selected_expiry, Val(spot_price))
    /\ pc' = "max_pain"
    /\ UNCHANGED <<uploaded_file, now, df_processed, spot_price, data_timestamp,
                   parse_log, df_columns, export_data, display,
                   df_selected_expiry, gex_metrics, oi_metrics, vol_metrics,
                   max_pain, pc_ratios, expected_move>>

CalcMaxPain ==
    /\ pc = "max_pain"
    /\ max_pain' = calculate_max_pain(df_selected_expiry)
    /\ pc' = "pc_ratios"
    /\ UNCHANGED <<uploaded_file, now, df_processed, spot_price, data_timestamp,
                   parse_log, df_columns, export_data, display,
                   df_selected_expiry, gex_metrics, oi_metrics, vol_metrics,
                   activity_metrics, pc_ratios, expected_move>>

CalcPcRatios ==
    /\ pc = "pc_ratios"
    /\ pc_ratios' = calculate_pc_ratios(df_selected_expiry)
    /\ pc' = "expected_move"
    /\ UNCHANGED <<uploaded_file, now, df_processed, spot_price, data_timestamp,
                   parse_log, df_columns, export_data, display,
                   df_selected_expiry, gex_metrics, oi_metrics, vol_metrics,
                   activity_metrics, max_pain, expected_move>>

CalcExpectedMove ==
    /\ pc = "expected_move"
    /\ expected_move' = calculate_expected_move(df_selected_expiry, Val(spot_price))
    /\ pc' = "done"
    /\ UNCHANGED <<uploaded_file, now, df_processed, spot_price, data_timestamp,
                   parse_log, df_columns, export_data, display,
                   df_selected_expiry, gex_metrics, oi_metrics, vol_metrics,
                   activity_metrics, max_pain, pc_ratios>>

Next ==
    \/ LoadData
    \/ SelectExpiry
    \/ CalcGex
    \/ CalcOiWalls
    \/ CalcVolumeProfile
    \/ CalcActivityRatio
    \/ CalcMaxPain
    \/ CalcPcRatios
    \/ CalcExpectedMove

Spec == Init /\ [][Next]_vars
SpecGex == InitGex /\ [][Next]_vars
SpecOi == InitOi /\ [][Next]_vars

SpecVol == InitVol /\ [][Next]_vars

SpecMissing == InitMissing /\ [][Next]_vars

SpecIv == InitIv /\ [][Next]_vars

SpecHeader == InitHeader /\ [][Next]_vars

SpecColumns == InitColumns /\ [][Next]_vars

-----------------------------------------------------------------------------
(* The dashboard run: app.py calls the seven functions one after the other   *)
(* with no try/except, so an exception raised by one ends the script run     *)
(* before the next is called; the selectbox offers the expirations of the    *)
(* parsed table, and the script stops when there is none.                    *)

\* no call made so far has raised
NoneRaised ==
    \A m \in {gex_metrics, oi_metrics, vol_metrics, activity_metrics, max_pain,
               pc_ratios, expected_move} : m.status # "raised"

\* st.error("Nessuna scadenza valida trovata nel file."); st.stop()
AppNoExpirations ==
    /\ pc = "loaded"
    /\ df_processed = <<>>
    /\ pc' = "stopped"
    /\ UNCHANGED <<uploaded_file, now, df_processed, spot_price, data_timestamp,
                   parse_log, df_columns, export_data, display,
                   df_selected_expiry, gex_metrics, oi_metrics,
                   vol_metrics, activity_metrics, max_pain, pc_ratios, expected_move>>

\* the selectbox over the expirations of the parsed table
AppSelectExpiry ==
    /\ pc = "loaded"
    /\ \E d \in {df_processed[i].Expiration_Date : i \in 1..Len(df_processed)} :
          LET OfDate(r) == r.Expiration_Date = d
          IN  df_selected_expiry' = SelectSeq(df_processed, OfDate)
    /\ pc' = "gex"
    /\ UNCHANGED <<uploaded_file, now, df_processed, spot_price, data_timestamp,
                   parse_log, df_columns, export_data, display,
                   gex_metrics, oi_metrics, vol_metrics, activity_metrics,
                   max_pain, pc_ratios, expected_move>>

AppCalcGex == NoneRaised /\ CalcGex
AppCalcOiWalls == NoneRaised /\ CalcOiWalls
AppCalcVolumeProfile == NoneRaised /\ CalcVolumeProfile
AppCalcActivityRatio == NoneRaised /\ CalcActivityRatio
AppCalcMaxPain == NoneRaised /\ CalcMaxPain
AppCalcPcRatios == NoneRaised /\ CalcPcRatios
AppCalcExpectedMove == NoneRaised /\ CalcExpectedMove

\* the uncaught exception of a metric function ends the script run
AppAbort ==
    /\ ~NoneRaised
    /\ pc \notin {"aborted", "done", "rendered"}
    /\ pc' = "aborted"
    /\ UNCHANGED <<uploaded_file, now, df_processed, spot_price, data_timestamp,
                   parse_log, df_columns, export_data, display,
                   df_selected_expiry, gex_metrics, oi_metrics,
                   vol_metrics, activity_metrics, max_pain, pc_ratios, expected_move>>

\* "BULLISH" if activity_metrics['drift_score'] > spot_price else "BEARISH"
drift_bias(drift_score, spot) ==
    IF RatLess(FromInt(spot), drift_score) THEN "BULLISH" ELSE "BEARISH"

\* create_drift_arrow_chart: the text and colour of the arrow, and its marker
drift_arrow(drift_score, spot) ==
    [text |-> IF RatLess(FromInt(spot), drift_score) THEN "Drift Rialzista"
              ELSE IF RatLess(drift_score, FromInt(spot)) THEN "Drift Ribassista"
              ELSE "Drift Neutrale",
     color |-> IF RatLess(FromInt(spot), drift_score) THEN "color_bullish"
               ELSE IF RatLess(drift_score, FromInt(spot)) THEN "color_bearish"
               ELSE "color_neutral",
     symbol |-> IF RatLeq(FromInt(spot), drift_score) THEN "arrow-right"
                ELSE "arrow-left"]

\* Python truth value of an optional number: None and 0 are false
truthy_int(o) == ~IsNone(o) /\ Val(o) # 0
truthy_rat(o) == ~IsNone(o) /\ Val(o).n # 0
truthy_move(o) == ~IsNone(o) /\ Val(o).coef.n # 0 /\ Val(o).radicand.n # 0

\* f"{v:.2f}" if v else "N/A": the metric shows the number or the text N/A
NotAvailable == [shows |-> "N/A"]
Shown(v) == [shows |-> "number", of |-> v]
metric_int(o) == IF truthy_int(o) THEN Shown(Val(o)) ELSE NotAvailable
metric_rat(o) == IF truthy_rat(o) THEN Shown(Val(o)) ELSE NotAvailable

\* if em['move']: the three metrics, else st.warning("Impossibile calcolare ...")
expected_move_panel(em) ==
    IF truthy_move(em.move)
    THEN [shows |-> "bands", upper_band |-> em.upper_band,
          lower_band |-> em.lower_band, move |-> em.move]
    ELSE [shows |-> "warning"]

\* the rest of the script run: the export dictionary, then the tabs
Render ==
    /\ pc = "done"
    /\ export_data' =
          [status |-> "ok",
           vwas_drift_score |-> activity_metrics.drift_score,
           drift_bias |-> drift_bias(activity_metrics.drift_score, Val(spot_price))]
    /\ display' =
          [status |-> "ok",
           gamma_switch_point |-> metric_rat(gex_metrics.gamma_switch_point),
           spot_switch_delta |-> metric_rat(gex_metrics.spot_switch_delta),
           put_wall |-> metric_int(oi_metrics.put_wall_strike),
           call_wall |-> metric_int(oi_metrics.call_wall_strike),
           drift_arrow |-> drift_arrow(activity_metrics.drift_score, Val(spot_price)),
           max_pain |-> metric_int(max_pain.max_pain_strike),
           expected_move |-> expected_move_panel(expected_move)]
    /\ pc' = "rendered"
    /\ UNCHANGED <<uploaded_file, now, df_processed, spot_price, data_timestamp,
                   parse_log, df_columns, df_selected_expiry, gex_metrics,
                   oi_metrics, vol_metrics, activity_metrics, max_pain, pc_ratios,
                   expected_move>>

NextApp ==
    \/ LoadData
    \/ AppNoExpirations
    \/ AppSelectExpiry
    \/ AppCalcGex
    \/ AppCalcOiWalls
    \/ AppCalcVolumeProfile
    \/ AppCalcActivityRatio
    \/ AppCalcMaxPain
    \/ AppCalcPcRatios
    \/ AppCalcExpectedMove
    \/ Render
    \/ AppAbort

\* a script run executes its statements in order until it ends: a step that
\* can be taken is taken
SpecApp == InitApp /\ [][NextApp]_vars /\ WF_vars(NextApp)

\* the same run over the files that exercise the export and the tabs
SpecDash == InitDash /\ [][NextApp]_vars

-----------------------------------------------------------------------------
(* Repeated runs: load_data is decorated with st.cache_data, so a later run of *)
(* the script on the same uploaded file gets the memoized triple back and     *)
(* parse_cboe_csv is not called again.                                        *)

Rerun ==
    /\ pc \in {"loaded", "failed"}
    /\ now < LastDay
    /\ now' = now + 1
    /\ UNCHANGED <<uploaded_file, pc, df_processed, spot_price, data_timestamp,
                   parse_log, df_columns, export_data, display, df_selected_expiry,
                   gex_metrics, oi_metrics, vol_metrics, activity_metrics, max_pain,
                   pc_ratios, expected_move>>

NextCache ==
    \/ LoadData
    \/ Rerun

SpecCache == InitCache /\ [][NextCache]_vars

-----------------------------------------------------------------------------
(* Properties *)

Slice == df_selected_expiry
Spot == Val(spot_price)
Rows == uploaded_file.rows

\* C1: every metric function returns a result and never raises, for every
\* slice and spot price, including an empty slice and a slice whose relevance
\* band holds only calls or only puts.
C1_NeverRaises ==
    /\ gex_metrics.status # "raised"
    /\ oi_metrics.status # "raised"
    /\ vol_metrics.status # "raised"
    /\ activity_metrics.status # "raised"
    /\ max_pain.status # "raised"
    /\ pc_ratios.status # "raised"
    /\ expected_move.status # "raised"

\* the raw row and side behind the index label j of the concatenated table
RawOf(j) == Rows[(j % Len(Rows)) + 1]
RawHalf(j) == IF j < Len(Rows) THEN RawOf(j).call ELSE RawOf(j).put

\* the filter drops label j: open interest unparseable or not positive, or the
\* expiration unparseable or before the analysis date
DroppedLabel(j) ==
    \/ IsNone(RawHalf(j).Open_Interest)
    \/ Val(RawHalf(j).Open_Interest) <= 0
    \/ IsNone(RawOf(j).Expiration_Date)
    \/ Val(RawOf(j).Expiration_Date) < analysis_date(uploaded_file.header, now)

\* C2: every retained record of a parsed snapshot has open_interest > 0 and
\* dte_days >= 0, and a row dropped by the filter (also one whose expiration
\* date could not be parsed) is not in the output.
C2_RetainedRows ==
    pc # "start" =>
        /\ \A i \in 1..Len(df_processed) :
              df_processed[i].OI > 0 /\ df_processed[i].DTE_Days >= 0
        /\ \A j \in 0..(2 * Len(Rows) - 1) :
              DroppedLabel(j) => \A i \in 1..Len(df_processed) : df_processed[i].idx # j
        /\ \A i \in 1..Len(Slice) :
              \E k \in 1..Len(df_processed) : df_processed[k] = Slice[i]

\* a parsed file in which a row with positive open interest was dropped for its
\* unparseable expiration, one for zero open interest, and another row retained
C2_Witness ==
    /\ pc = "loaded"
    /\ Len(df_processed) > 0
    /\ \E j \in 0..(2 * Len(Rows) - 1) :
          /\ IsNone(RawOf(j).Expiration_Date)
          /\ ~IsNone(RawHalf(j).Open_Interest)
          /\ Val(RawHalf(j).Open_Interest) > 0
    /\ \E j \in 0..(2 * Len(Rows) - 1) :
          /\ ~IsNone(RawOf(j).Expiration_Date)
          /\ Val(RawOf(j).Expiration_Date) >= analysis_date(uploaded_file.header, now)
          /\ RawHalf(j).Open_Interest = Some(0)

-----------------------------------------------------------------------------
(* Properties of calculate_gex_metrics *)

GexDone == gex_metrics.status = "ok"

\* the distinct strikes of the slice and the net signed GEX at each of them
SliceStrikes == {Slice[i].Strike : i \in 1..Len(Slice)}
NetAt(k) ==
    LET here == {i \in 1..Len(Slice) : Slice[i].Strike = k}
        RECURSIVE Total(_)
        Total(S) == IF S = {} THEN 0
                    ELSE LET i == CHOOSE i \in S : TRUE
                         IN  Slice[i].GEX_Signed + Total(S \ {i})
    IN  Total(here)

SignOf(y) == IF y = 0 THEN "zero" ELSE IF y > 0 THEN "plus" ELSE "minus"

\* adjacent strikes lo < hi of the slice whose net GEX differ in sign
Adjacent(lo, hi) == lo < hi /\ ~\E k \in SliceStrikes : lo < k /\ k < hi
SignChanges ==
    {p \in SliceStrikes \X SliceStrikes :
        Adjacent(p[1], p[2]) /\ SignOf(NetAt(p[1])) # SignOf(NetAt(p[2]))}

\* the zero of the straight line through (lo, NetAt(lo)) and (hi, NetAt(hi))
CrossingOf(p) ==
    Rat(p[1] * NetAt(p[2]) - p[2] * NetAt(p[1]), NetAt(p[2]) - NetAt(p[1]))

\* |c - spot| as a fraction, and the fraction q against an integer k
DistToSpot(c) == [n |-> Abs(c.n - Spot * c.d), d |-> c.d]
Closer(c1, c2) == DistToSpot(c1).n * DistToSpot(c2).d < DistToSpot(c2).n * DistToSpot(c1).d
Above(q, k) == q.n > k * q.d
Below(q, k) == q.n < k * q.d

\* the reported flip is the crossing of the pair p and none is closer to spot
ReportedFrom(p) ==
    /\ Val(gex_metrics.gamma_switch_point) = CrossingOf(p)
    /\ \A q \in SignChanges : ~Closer(CrossingOf(q), CrossingOf(p))

\* C3 (as stated): with at least 2 strikes and a detected sign change, the flip
\* point lies strictly between the two adjacent strikes that straddle the
\* crossing, and no other detected crossing is strictly closer to spot.
C3_StrictlyBetween ==
    GexDone /\ Cardinality(SliceStrikes) >= 2 /\ SignChanges # {} =>
        /\ ~IsNone(gex_metrics.gamma_switch_point)
        /\ \E p \in SignChanges :
              /\ ReportedFrom(p)
              /\ Above(Val(gex_metrics.gamma_switch_point), p[1])
              /\ Below(Val(gex_metrics.gamma_switch_point), p[2])

\* C3 (amended): with at least 2 strikes and a detected sign change, the flip
\* point lies in the closed interval of the two adjacent strikes of a detected
\* crossing: strictly between them when both have non-zero net GEX, and on the
\* strike whose net GEX is zero otherwise; no other detected crossing is
\* strictly closer to spot.
C3_WithinPair ==
    GexDone /\ Cardinality(SliceStrikes) >= 2 /\ SignChanges # {} =>
        /\ ~IsNone(gex_metrics.gamma_switch_point)
        /\ \E p \in SignChanges :
              LET g == Val(gex_metrics.gamma_switch_point)
              IN  /\ ReportedFrom(p)
                  /\ ~Below(g, p[1])
                  /\ ~Above(g, p[2])
                  /\ (NetAt(p[1]) # 0 /\ NetAt(p[2]) # 0 => Above(g, p[1]) /\ Below(g, p[2]))
                  /\ (NetAt(p[1]) = 0 => g = FromInt(p[1]))
                  /\ (NetAt(p[2]) = 0 => g = FromInt(p[2]))

\* two crossings between non-zero values at different distances from spot, the
\* nearer one in the higher pair
C3_Witness ==
    /\ GexDone
    /\ \E p, q \in SignChanges :
          /\ p[1] < q[1]
          /\ NetAt(p[1]) # 0 /\ NetAt(p[2]) # 0 /\ NetAt(q[2]) # 0
          /\ Closer(CrossingOf(q), CrossingOf(p))
          /\ Val(gex_metrics.gamma_switch_point) = CrossingOf(q)

C5_DeltaIsSpotMinusFlip ==
    GexDone =>
        /\ IsNone(gex_metrics.spot_switch_delta) <=> IsNone(gex_metrics.gamma_switch_point)
        /\ ~IsNone(gex_metrics.gamma_switch_point) =>
              LET g == Val(gex_metrics.gamma_switch_point)
                  dl == Val(gex_metrics.spot_switch_delta)
              IN  dl.n * g.d + g.n * dl.d = Spot * g.d * dl.d

\* a flip point that is not a whole strike and lies above spot
C5_Witness ==
    /\ GexDone
    /\ ~IsNone(gex_metrics.gamma_switch_point)
    /\ Val(gex_metrics.gamma_switch_point).d > 1
    /\ Val(gex_metrics.spot_switch_delta).n < 0

\* C6: total_net_gex equals the sum of gex_signed over all records of the
\* slice and the sum of the Net_GEX column of the per-strike table; records
\* sharing a strike are summed, none lost or counted twice.
C6_TotalNetGex ==
    GexDone =>
        /\ gex_metrics.total_net_gex = SumSeq([i \in 1..Len(Slice) |-> Slice[i].GEX_Signed])
        /\ gex_metrics.total_net_gex =
              SumSeq([i \in 1..Len(gex_metrics.df_gex_profile) |->
                          gex_metrics.df_gex_profile[i].Net_GEX])
        /\ {gex_metrics.df_gex_profile[i].Strike :
                i \in 1..Len(gex_metrics.df_gex_profile)} = SliceStrikes
        /\ \A i \in 1..Len(gex_metrics.df_gex_profile) :
              gex_metrics.df_gex_profile[i].Net_GEX =
                  NetAt(gex_metrics.df_gex_profile[i].Strike)

\* three records with non-zero GEX share one strike and another strike exists
C6_Witness ==
    /\ GexDone
    /\ gex_metrics.total_net_gex # 0
    /\ Cardinality(SliceStrikes) >= 2
    /\ \E k \in SliceStrikes :
          Cardinality({i \in 1..Len(Slice) :
                          Slice[i].Strike = k /\ Slice[i].GEX_Signed # 0}) >= 3

-----------------------------------------------------------------------------
(* Properties of calculate_oi_walls *)

WallsDone == oi_metrics.status = "ok"

\* the rows of the slice that may carry the put wall and the call wall
PutSupport ==
    {i \in 1..Len(Slice) :
        /\ Slice[i].Type = "Put"
        /\ 3 * Spot <= 4 * Slice[i].Strike /\ 4 * Slice[i].Strike <= 5 * Spot
        /\ Slice[i].Strike <= Spot}
CallResistance ==
    {i \in 1..Len(Slice) :
        /\ Slice[i].Type = "Call"
        /\ 3 * Spot <= 4 * Slice[i].Strike /\ 4 * Slice[i].Strike <= 5 * Spot
        /\ Slice[i].Strike >= Spot}

\* C7: with spot > 0, a defined put wall is <= spot, a defined call wall is
\* >= spot, and every defined wall strike lies within [0.75*spot, 1.25*spot].
C7_WallsInBand ==
    WallsDone /\ Spot > 0 =>
        /\ ~IsNone(oi_metrics.put_wall_strike) =>
              /\ Val(oi_metrics.put_wall_strike) <= Spot
              /\ 4 * Val(oi_metrics.put_wall_strike) >= 3 * Spot
              /\ 4 * Val(oi_metrics.put_wall_strike) <= 5 * Spot
        /\ ~IsNone(oi_metrics.call_wall_strike) =>
              /\ Val(oi_metrics.call_wall_strike) >= Spot
              /\ 4 * Val(oi_metrics.call_wall_strike) >= 3 * Spot
              /\ 4 * Val(oi_metrics.call_wall_strike) <= 5 * Spot

\* both walls exist although a put below the band and a call above the band
\* hold more open interest than the walls
C7_Witness ==
    /\ WallsDone
    /\ ~IsNone(oi_metrics.put_wall_strike)
    /\ ~IsNone(oi_metrics.call_wall_strike)
    /\ \E i \in 1..Len(Slice) :
          /\ Slice[i].Type = "Put" /\ 4 * Slice[i].Strike < 3 * Spot
          /\ Slice[i].OI > oi_metrics.put_wall_oi
    /\ \E i \in 1..Len(Slice) :
          /\ Slice[i].Type = "Call" /\ 4 * Slice[i].Strike > 5 * Spot
          /\ Slice[i].OI > oi_metrics.call_wall_oi

\* row i is the first row of Side with the largest open interest of Side
FirstLargest(i, Side) ==
    /\ i \in Side
    /\ \A j \in Side : Slice[j].OI <= Slice[i].OI
    /\ \A j \in Side : j < i => Slice[j].OI < Slice[i].OI

\* the scenario of the specification: spot 4500, puts 4400:5000 and 4450:8000,
\* calls 4550:7000 and 4600:3000
ScenarioSlice ==
    <<[idx |-> 0, Type |-> "Call", Strike |-> 4550, OI |-> 7000],
      [idx |-> 1, Type |-> "Call", Strike |-> 4600, OI |-> 3000],
      [idx |-> 2, Type |-> "Put", Strike |-> 4400, OI |-> 5000],
      [idx |-> 3, Type |-> "Put", Strike |-> 4450, OI |-> 8000]>>
ScenarioWalls == calculate_oi_walls(ScenarioSlice, 4500)

\* C8: the put wall is the strike with maximum open interest among the put
\* records in the band at or below spot, the call wall likewise among the call
\* records in the band at or above spot; the reported wall OI is that maximum;
\* of several records tying for the maximum the first in row order is chosen;
\* the scenario gives put wall 4450 and call wall 4550.
C8_WallIsFirstMaximum ==
    /\ WallsDone /\ PutSupport # {} =>
          \E i \in PutSupport :
              /\ FirstLargest(i, PutSupport)
              /\ oi_metrics.put_wall_strike = Some(Slice[i].Strike)
              /\ oi_metrics.put_wall_oi = Slice[i].OI
    /\ WallsDone /\ CallResistance # {} =>
          \E i \in CallResistance :
              /\ FirstLargest(i, CallResistance)
              /\ oi_metrics.call_wall_strike = Some(Slice[i].Strike)
              /\ oi_metrics.call_wall_oi = Slice[i].OI
    /\ ScenarioWalls.put_wall_strike = Some(4450)
    /\ ScenarioWalls.put_wall_oi = 8000
    /\ ScenarioWalls.call_wall_strike = Some(4550)
    /\ ScenarioWalls.call_wall_oi = 7000

\* two qualifying puts at different strikes tie for the maximum, and so do two
\* qualifying calls
C8_Witness ==
    /\ WallsDone
    /\ \E i, j \in PutSupport :
          /\ FirstLargest(i, PutSupport)
          /\ i < j /\ Slice[j].OI = Slice[i].OI /\ Slice[j].Strike # Slice[i].Strike
    /\ \E i, j \in CallResistance :
          /\ FirstLargest(i, CallResistance)
          /\ i < j /\ Slice[j].OI = Slice[i].OI /\ Slice[j].Strike # Slice[i].Strike

\* C9: with no put record in the band at or below spot, put_wall_strike is
\* None and put_wall_oi is 0; with no call record in the band at or above spot,
\* call_wall_strike is None and call_wall_oi is 0; no other strike stands in,
\* and the other side's wall is unaffected.
C9_MissingSideUndefined ==
    WallsDone =>
        /\ PutSupport = {} =>
              IsNone(oi_metrics.put_wall_strike) /\ oi_metrics.put_wall_oi = 0
        /\ CallResistance = {} =>
              IsNone(oi_metrics.call_wall_strike) /\ oi_metrics.call_wall_oi = 0
        /\ PutSupport # {} =>
              ~IsNone(oi_metrics.put_wall_strike) /\ oi_metrics.put_wall_oi > 0
        /\ CallResistance # {} =>
              ~IsNone(oi_metrics.call_wall_strike) /\ oi_metrics.call_wall_oi > 0

\* the slice holds puts, none of them qualifies, and the call wall is defined
C9_Witness ==
    /\ WallsDone
    /\ PutSupport = {}
    /\ \E i \in 1..Len(Slice) : Slice[i].Type = "Put" /\ Slice[i].Strike > Spot
    /\ \E i \in 1..Len(Slice) : Slice[i].Type = "Put" /\ 4 * Slice[i].Strike < 3 * Spot
    /\ IsNone(oi_metrics.put_wall_strike)
    /\ ~IsNone(oi_metrics.call_wall_strike)

-----------------------------------------------------------------------------
(* Properties of calculate_max_pain *)

PainDone == max_pain.status = "ok"

\* max(x, 0)
Pos(x) == IF x > 0 THEN x ELSE 0

\* what the option buyers of the slice are paid if the underlying settles at K
PayoutAt(K) ==
    SumSeq([i \in 1..Len(Slice) |->
               IF Slice[i].Type = "Call" THEN Pos(K - Slice[i].Strike) * Slice[i].OI
               ELSE Pos(Slice[i].Strike - K) * Slice[i].OI])

-----------------------------------------------------------------------------
(* Put/call ratios *)

PcDone == pc_ratios.status = "ok"

\* the total of one column over the slice's contracts of one type
TotalOf(side, col) ==
    SumSeq([i \in 1..Len(Slice) |-> IF Slice[i].Type = side THEN Slice[i][col] ELSE 0])

\* the fraction q equals num / den
IsQuotient(q, num, den) == q.d > 0 /\ q.n * den = q.d * num

\* C11: pc_oi_ratio is total put OI over total call OI and pc_vol_ratio is
\* total put volume over total call volume; each is undefined exactly when its
\* own denominator is zero, whatever the other denominator is.
C11_PcRatios ==
    PcDone =>
        /\ IsNone(pc_ratios.pc_oi_ratio) <=> TotalOf("Call", "OI") = 0
        /\ IsNone(pc_ratios.pc_vol_ratio) <=> TotalOf("Call", "Vol") = 0
        /\ ~IsNone(pc_ratios.pc_oi_ratio) =>
              IsQuotient(Val(pc_ratios.pc_oi_ratio), TotalOf("Put", "OI"),
                         TotalOf("Call", "OI"))
        /\ ~IsNone(pc_ratios.pc_vol_ratio) =>
              IsQuotient(Val(pc_ratios.pc_vol_ratio), TotalOf("Put", "Vol"),
                         TotalOf("Call", "Vol"))

\* calls with open interest but no volume: the volume ratio alone is undefined
C11_Witness ==
    /\ PcDone
    /\ TotalOf("Call", "Vol") = 0
    /\ TotalOf("Call", "OI") > 0
    /\ TotalOf("Put", "OI") > 0
    /\ IsNone(pc_ratios.pc_vol_ratio)
    /\ ~IsNone(pc_ratios.pc_oi_ratio)

-----------------------------------------------------------------------------
(* Expected move *)

MoveDone == expected_move.status = "ok"

AllUndefined ==
    /\ IsNone(expected_move.move)
    /\ IsNone(expected_move.upper_band)
    /\ IsNone(expected_move.lower_band)
    /\ IsNone(expected_move.iv_atm)

\* the contracts of the slice whose strike is nearest to the spot
Nearest ==
    {i \in 1..Len(Slice) :
        \A j \in 1..Len(Slice) : Abs(Slice[i].Strike - Spot) <= Abs(Slice[j].Strike - Spot)}

\* the IV cell of the file behind a contract of the slice
FileIV(i) == RawHalf(Slice[i].idx).IV

\* C12: whenever the move cannot be computed - the slice has no strike, or
\* the IV of the at-the-money contracts is missing in the file - all four
\* results are undefined; a missing IV is never reported as a computed move.
C12_UndefinedWhenNotComputable ==
    MoveDone =>
        ((Slice = <<>> \/ \A i \in Nearest : IsNone(FileIV(i))) => AllUndefined)

\* the at-the-money contracts: those at the strike of the first nearest row
AtmStrike == Slice[CHOOSE i \in Nearest : \A j \in Nearest : i <= j].Strike
AtmRows == {i \in 1..Len(Slice) : Slice[i].Strike = AtmStrike}
AtmIvTotal == SumSeq([i \in 1..Len(Slice) |-> IF i \in AtmRows THEN Slice[i].IV ELSE 0])

\* the at-the-money contracts expire on the analysis date or before it
AtmExpired == Slice # <<>> /\ \A i \in AtmRows : Slice[i].DTE_Days <= 0

\* the time value is 1/365.25 and the bands are spot + move and spot - move
FlooredMove ==
    /\ ~IsNone(expected_move.move)
    /\ Val(expected_move.move).radicand = [n |-> 4, d |-> 1461]
    /\ IsQuotient(Val(expected_move.move).coef, Spot * AtmIvTotal, Cardinality(AtmRows))
    /\ expected_move.upper_band =
          Some([base |-> Spot, sgn |-> 1, move |-> Val(expected_move.move)])
    /\ expected_move.lower_band =
          Some([base |-> Spot, sgn |-> -1, move |-> Val(expected_move.move)])

-----------------------------------------------------------------------------
(* Parsing: spot resolution, failures, fallbacks *)

Parsed == pc \notin {"start", "failed"}
Hdr == uploaded_file.header

\* the strikes of the file's table, and the one of rank r in ascending order
FileStrikes == [i \in 1..Len(Rows) |-> Val(Rows[i].Strike)]
Ranked(r) ==
    CHOOSE v \in {FileStrikes[i] : i \in 1..Len(Rows)} :
        /\ Cardinality({i \in 1..Len(Rows) : FileStrikes[i] < v}) < r
        /\ Cardinality({i \in 1..Len(Rows) : FileStrikes[i] <= v}) >= r

\* v is the median strike of the file's table
IsMedianStrike(v) ==
    LET n == Len(Rows)
    IN  IF n = 0 THEN IsNaN(v)
        ELSE /\ ~IsNaN(v)
             /\ 2 * Val(v) = Ranked((n + 1) \div 2) + Ranked((n + 2) \div 2)

LastUsable == ~IsNone(Hdr.Last) /\ Val(Hdr.Last) # 0
MidUsable == ~IsNone(Hdr.Bid) /\ ~IsNone(Hdr.Ask) /\ Val(Hdr.Ask) > 0

\* C14: the spot is the header's Last when present and non-zero; otherwise
\* (bid + ask) / 2 when both are present and ask > 0; otherwise the median
\* strike of the table. Bid 100 and Ask 102 without Last give 101, and
\* Bid/Ask are not used when a non-zero Last is present.
C14_SpotResolution ==
    /\ Parsed =>
          /\ LastUsable => spot_price = Hdr.Last
          /\ (~LastUsable /\ MidUsable) =>
                (~IsNaN(spot_price) /\ 2 * Spot = Val(Hdr.Bid) + Val(Hdr.Ask))
          /\ (~LastUsable /\ ~MidUsable) => IsMedianStrike(spot_price)
    /\ resolved_spot(FileOf(HeaderOf(None, Some(100), Some(102), Some(10)), <<>>))
          = Some(101)

\* a non-zero Last next to a usable Bid/Ask pair with another midpoint
C14_Witness ==
    /\ Parsed
    /\ LastUsable
    /\ MidUsable
    /\ 2 * Val(Hdr.Last) # Val(Hdr.Bid) + Val(Hdr.Ask)
    /\ spot_price = Hdr.Last

\* the file lacks the 'Expiration Date' header row, the 'Strike' column or the
\* 'Open Interest' column
Malformed ==
    \/ ~uploaded_file.has_header_row
    \/ ~uploaded_file.has_strike_col
    \/ ~uploaded_file.has_oi_col

\* C15: the parser hands the caller either a full triple or (None, None,
\* None): a file without the header row, without the Strike column or failing
\* anywhere else gives the all-None triple, and no result has some of table,
\* spot and timestamp set and the others None.
C15_AllOrNothing ==
    pc # "start" =>
        /\ Malformed => pc = "failed"
        /\ pc = "failed" =>
              /\ df_processed = <<>>
              /\ IsNone(spot_price)
              /\ IsNone(data_timestamp)
        /\ pc # "failed" =>
              /\ ~IsNone(spot_price)
              /\ ~IsNone(data_timestamp)

\* a file without the Strike column whose header holds a spot and a date
C15_Witness ==
    /\ pc = "failed"
    /\ ~uploaded_file.has_strike_col
    /\ LastUsable
    /\ ~IsNone(Hdr.Date)
    /\ IsNone(spot_price)
    /\ IsNone(data_timestamp)

\* a printed line that is neither the median-strike warning nor the closing
\* or error line: the only place a warning about the date could be
DateWarned ==
    \E i \in 1..Len(parse_log) : parse_log[i] \notin {WARN_SPOT, PARSE_DONE, PARSE_ERROR}

SpotWarned == \E i \in 1..Len(parse_log) : parse_log[i] = WARN_SPOT

\* every row of the table measures its days to expiry from the wall clock's date
DatedFromNow ==
    \A i \in 1..Len(df_processed) :
        df_processed[i].DTE_Days = df_processed[i].Expiration_Date - now

\* C16: on a degraded but usable file the parser substitutes the fallback,
\* still returns a snapshot and emits a warning: a missing or unparseable
\* timestamp is replaced by the current date with a warning, and an
\* unresolved spot is replaced by the median strike with a warning.
C16_FallbacksWarn ==
    (pc # "start" /\ ~Malformed) =>
        /\ Parsed
        /\ IsNone(Hdr.Date) => (DatedFromNow /\ DateWarned)
        /\ (~LastUsable /\ ~MidUsable) => (IsMedianStrike(spot_price) /\ SpotWarned)

-----------------------------------------------------------------------------
(* Volume drift *)

ActivityRan == activity_metrics.status # "pending"

\* totals over the contracts of the slice whose strike is in the band
BandVolume ==
    SumSeq([i \in 1..Len(Slice) |->
               IF InBand(Slice[i].Strike, Spot) THEN Slice[i].Vol ELSE 0])
BandStrikeVolume ==
    SumSeq([i \in 1..Len(Slice) |->
               IF InBand(Slice[i].Strike, Spot) THEN Slice[i].Strike * Slice[i].Vol ELSE 0])

DriftAsSpecified ==
    /\ BandVolume > 0 =>
          IsQuotient(activity_metrics.drift_score, BandStrikeVolume, BandVolume)
    /\ BandVolume = 0 => activity_metrics.drift_score = [n |-> Spot, d |-> 1]

\* C17: calculate_activity_ratio returns drift_score = sum(strike * volume) /
\* sum(volume) over the in-band contracts when their total volume is positive
\* and drift_score = spot_price when it is zero; contracts outside the band
\* have no influence.
C17_DriftScore ==
    ActivityRan => (activity_metrics.status = "ok" /\ DriftAsSpecified)

-----------------------------------------------------------------------------
(* The dashboard run *)

AllSevenProduced ==
    \A m \in {gex_metrics, oi_metrics, vol_metrics, activity_metrics, max_pain,
              pc_ratios, expected_move} : m.status = "ok"

\* C18: in the dashboard's computation for a selected expiration no metric
\* aborts the run, and once a non-empty expiration is selected all seven
\* metric results are eventually produced.
C18_AllSevenEventually ==
    /\ [](pc # "aborted")
    /\ (pc = "gex" /\ Slice # <<>>) ~> AllSevenProduced

-----------------------------------------------------------------------------
(* Records of the parsed snapshot *)

\* C19: every contract record of a parsed snapshot has strike > 0, also a
\* record whose strike cell was unparseable and was coerced.
C19_StrikePositive ==
    Parsed => \A i \in 1..Len(df_processed) : df_processed[i].Strike > 0

\* the spot could not be resolved to a positive number
SpotUnresolved == IsNone(spot_price) \/ IsNaN(spot_price) \/ Spot <= 0

\* C20: every record has gex_notional = gamma * open_interest * 100 *
\* (spot / 100) * spot and gex_signed = +gex_notional for a call and
\* -gex_notional for a put (with gamma >= 0 a call's is >= 0 and a put's is
\* <= 0); when the spot could not be resolved (missing or <= 0) both fields
\* are 0 on every row and the parse still returns a snapshot.
C20_GexFields ==
    /\ (pc # "start" /\ ~Malformed) => Parsed
    /\ Parsed =>
          \A i \in 1..Len(df_processed) :
              LET r == df_processed[i]
              IN  IF SpotUnresolved
                  THEN r.GEX_Notional = 0 /\ r.GEX_Signed = 0
                  ELSE /\ 100 * r.GEX_Notional =
                             r.Gamma * r.OI * CONTRACT_MULTIPLIER * Spot * Spot
                       /\ r.Type = "Call" => r.GEX_Signed = r.GEX_Notional
                       /\ r.Type = "Put" => r.GEX_Signed = -r.GEX_Notional
                       /\ (r.Gamma >= 0 /\ r.Type = "Call") => r.GEX_Signed >= 0
                       /\ (r.Gamma >= 0 /\ r.Type = "Put") => r.GEX_Signed <= 0

\* a resolved spot with a call of positive and a put of negative signed GEX
C20_Witness ==
    /\ Parsed
    /\ ~SpotUnresolved
    /\ \E i, j \in 1..Len(df_processed) :
          /\ df_processed[i].Type = "Call" /\ df_processed[i].GEX_Signed > 0
          /\ df_processed[j].Type = "Put" /\ df_processed[j].GEX_Signed < 0

-----------------------------------------------------------------------------
(* Columns of the parsed table *)

\* the names the file's unknown columns have after the renaming
PassedThrough ==
    uploaded_file.extra_call_cols
    \cup {strip_dup_suffix(c) : c \in uploaded_file.extra_put_cols}

\* C21: a column whose name is not in the rename map passes through the
\* renaming unrenamed and is present in the parser's output table.
C21_UnknownColumnsKept ==
    Parsed => PassedThrough \subseteq df_columns

-----------------------------------------------------------------------------
(* Activity table *)

BandStrikes == {k \in SliceStrikes : InBand(k, Spot)}

\* the total of one column over the slice's contracts of one type at strike k
SideTotalAt(side, col, k) ==
    SumSeq([i \in 1..Len(Slice) |->
               IF Slice[i].Type = side /\ Slice[i].Strike = k THEN Slice[i][col] ELSE 0])

NoContractAt(side, k) ==
    \A i \in 1..Len(Slice) : ~(Slice[i].Type = side /\ Slice[i].Strike = k)

ActivityTableAsSpecified ==
    LET table == activity_metrics.df_activity_profile
    IN  /\ {table[i].Strike : i \in 1..Len(table)} = BandStrikes
        /\ Len(table) = Cardinality(BandStrikes)
        /\ \A i \in 1..Len(table) :
              LET k == table[i].Strike
              IN  /\ SideTotalAt("Call", "OI", k) + 1 # 0
                  /\ SideTotalAt("Put", "OI", k) + 1 # 0
                  /\ IsQuotient(table[i].Call_Activity_Ratio,
                                SideTotalAt("Call", "Vol", k),
                                SideTotalAt("Call", "OI", k) + 1)
                  /\ IsQuotient(table[i].Put_Activity_Ratio,
                                SideTotalAt("Put", "Vol", k),
                                SideTotalAt("Put", "OI", k) + 1)
                  /\ NoContractAt("Call", k) => table[i].Call_Activity_Ratio.n = 0
                  /\ NoContractAt("Put", k) => table[i].Put_Activity_Ratio.n = 0
                  /\ table[i].Put_Activity_Ratio_Neg.n = -table[i].Put_Activity_Ratio.n
                  /\ table[i].Put_Activity_Ratio_Neg.d = table[i].Put_Activity_Ratio.d

\* C22: for every strike of the relevance band and each side the activity
\* table holds summed volume / (summed open interest + 1), which divides by
\* no zero and is 0 for a side without contracts at that strike;
\* Put_Activity_Ratio_Neg is the negation of Put_Activity_Ratio; no strike
\* outside the band is in the table.
C22_ActivityTable ==
    ActivityRan => (activity_metrics.status = "ok" /\ ActivityTableAsSpecified)

-----------------------------------------------------------------------------
(* Flip-point scan: zero boundaries *)

\* the crossing candidates the scan collects from the per-strike profile
ScanCandidates ==
    LET prof == gex_metrics.df_gex_profile
    IN  IF Len(prof) > 1 THEN candidates_from(prof, 1) ELSE <<>>
ScanCandidateSet == {ScanCandidates[i] : i \in 1..Len(ScanCandidates)}

AdjacentPairs == {p \in SliceStrikes \X SliceStrikes : Adjacent(p[1], p[2])}
OneZero(p) == (NetAt(p[1]) = 0) # (NetAt(p[2]) = 0)
ZeroStrikeOf(p) == IF NetAt(p[1]) = 0 THEN p[1] ELSE p[2]

\* C23: an adjacent pair in which exactly one strike has net GEX 0 counts as
\* a sign change and contributes the candidate equal to that strike; a pair
\* with equal net GEX (both zero included) contributes no candidate and no
\* division by zero; every reported flip point lies in the closed interval
\* from the lowest to the highest strike of the slice.
C23_ZeroBoundaries ==
    GexDone =>
        /\ \A p \in AdjacentPairs :
              OneZero(p) =>
                  /\ p \in SignChanges
                  /\ FromInt(ZeroStrikeOf(p)) \in ScanCandidateSet
        /\ \A p \in AdjacentPairs : NetAt(p[1]) = NetAt(p[2]) => p \notin SignChanges
        /\ ScanCandidateSet = {CrossingOf(p) : p \in SignChanges}
        /\ Len(ScanCandidates) = Cardinality(SignChanges)
        /\ ~IsNone(gex_metrics.gamma_switch_point) =>
              /\ Val(gex_metrics.gamma_switch_point) \in ScanCandidateSet
              /\ \A k \in SliceStrikes :
                    (\A j \in SliceStrikes : k <= j) =>
                        ~Below(Val(gex_metrics.gamma_switch_point), k)
              /\ \A k \in SliceStrikes :
                    (\A j \in SliceStrikes : j <= k) =>
                        ~Above(Val(gex_metrics.gamma_switch_point), k)

\* a zero next to a non-zero net GEX, a pair of equal non-zero net GEX, and
\* the flip point reported on the strike whose net GEX is 0
C23_Witness ==
    /\ GexDone
    /\ \E p \in AdjacentPairs :
          /\ OneZero(p)
          /\ gex_metrics.gamma_switch_point = Some(FromInt(ZeroStrikeOf(p)))
    /\ \E q \in AdjacentPairs : NetAt(q[1]) = NetAt(q[2]) /\ NetAt(q[1]) # 0

-----------------------------------------------------------------------------
(* Export and tabs *)

Rendered == pc = "rendered"
DriftScore == activity_metrics.drift_score

ChartBullish == display.drift_arrow.text = "Drift Rialzista"
ChartBearish == display.drift_arrow.text = "Drift Ribassista"

\* C24: the drift_bias of the export and the direction of the drift arrow
\* chart agree: BULLISH exactly when the chart is bullish (drift_score >
\* spot), BEARISH exactly when the chart is bearish (drift_score < spot), and
\* neither reports a direction when drift_score equals spot.
C24_BiasMatchesChart ==
    Rendered =>
        /\ export_data.drift_bias = "BULLISH" <=> ChartBullish
        /\ ChartBullish <=> Above(DriftScore, Spot)
        /\ export_data.drift_bias = "BEARISH" <=> ChartBearish
        /\ ChartBearish <=> Below(DriftScore, Spot)
        /\ DriftScore = FromInt(Spot) =>
              /\ export_data.drift_bias \notin {"BULLISH", "BEARISH"}
              /\ ~ChartBullish /\ ~ChartBearish

\* C25: a metric is presented as not available ("N/A" for the gamma switch
\* point, the spot-switch delta, the walls and max pain; the warning for the
\* expected move) exactly when the metric function reported it as undefined;
\* a computed value of exactly 0 is shown as a number.
C25_NotAvailableIffUndefined ==
    Rendered =>
        /\ display.gamma_switch_point = NotAvailable <=>
              IsNone(gex_metrics.gamma_switch_point)
        /\ display.spot_switch_delta = NotAvailable <=>
              IsNone(gex_metrics.spot_switch_delta)
        /\ display.put_wall = NotAvailable <=> IsNone(oi_metrics.put_wall_strike)
        /\ display.call_wall = NotAvailable <=> IsNone(oi_metrics.call_wall_strike)
        /\ display.max_pain = NotAvailable <=> IsNone(max_pain.max_pain_strike)
        /\ display.expected_move.shows = "warning" <=> IsNone(expected_move.move)

-----------------------------------------------------------------------------
(* Memoized parse against a fresh parse *)

Loaded == pc \in {"loaded", "failed"}

\* the triple held by the script equals a parse of the file on day d
SameAsParseOn(d) ==
    LET fresh == parse_cboe_csv(uploaded_file, d)
    IN  /\ df_processed = fresh.df
        /\ spot_price = fresh.spot
        /\ data_timestamp = fresh.ts

\* C26 as stated: the parser's output is a function of the file only, so
\* the memoized result equals a fresh parse of the file at any later time,
\* also when the header timestamp is unparseable.
C26_MemoEqualsFresh == Loaded => SameAsParseOn(now)

\* C26: with a parseable header timestamp the memoized result equals a fresh
\* parse of the file at any later time; with an unparseable one the spot
\* price and the timestamp still do, and the table is the one a parse gave
\* on the day of the first run.
C26_MemoEqualsFreshWhenDated ==
    Loaded =>
        /\ ~IsNone(Hdr.Date) => SameAsParseOn(now)
        /\ spot_price = parse_cboe_csv(uploaded_file, now).spot
        /\ data_timestamp = parse_cboe_csv(uploaded_file, now).ts
        /\ \E d \in 11..now : SameAsParseOn(d)

\* a dated file with contracts, looked at again on a later day
C26_Witness ==
    /\ pc = "loaded"
    /\ now > 11
    /\ ~IsNone(Hdr.Date)
    /\ df_processed # <<>>
    /\ SameAsParseOn(now)

====
